---- MODULE Spec2Model ----
(***************************************************************************)
(* Model of package logbuf (host/logbuf): the Log aggregate with its       *)
(* listener registry, Follow / watch / sendData, Write, the backward       *)
(* block scan of Read, and Close.  Bytes are integers (character codes);   *)
(* the log file is the byte sequence the json encoder appended to it.      *)
(***************************************************************************)
EXTENDS Integers, Sequences, FiniteSets, TLC

VARIABLES
    sink,       \* bytes of the active log file of the lumberjack logger
    hasFile,    \* l.l.File() returns a non-empty name
    persisted,  \* history: the envelopes handed to Write, in append order
    listeners,  \* l.listeners: key -> set of channels
    mtxW,       \* l.mtx: the goroutine that called Lock (pending or holding)
    mtxR,       \* l.mtx: the goroutines holding RLock
    chClosed,   \* channels that were closed
    recvd,      \* history: per subscriber, the envelopes it received
    fpc, fstream, fsrc, fdata, ferr, fret,         \* Follow goroutines
    fphase, ftarget, fdone,                        \* ... inside sendData
    fsent,      \* history: per Follow, the envelopes handed to sendData
    fsnap,      \* history: the listeners at the RLock of its last sendData
    fgot,       \* history: the channels its last sendData delivered to
    inflight,   \* sends left behind by a sendData that did not wait for them
    wpc, wdata, wret,                              \* watch goroutines
    spc, sstall,                                   \* subscriber tasks
    cpc, closed,                                   \* the task calling Close
    crashed,    \* a goroutine panicked
    crashBy,    \* ... in a send or in a close
    now,        \* time.Now(), nanoseconds
    rpc, rlines, rsize, rblock, rcount, rbuf, rpos, rout, rclosed, rerr  \* Read

logVars  == <<sink, hasFile, persisted>>
regVars  == <<listeners, mtxW, mtxR, chClosed, recvd, crashed, crashBy>>
folVars  == <<fpc, fstream, fsrc, fdata, ferr, fret, fphase, ftarget, fdone,
             fsent, fsnap, fgot, inflight, now>>
watVars  == <<wpc, wdata, wret>>
subVars  == <<spc, sstall>>
cloVars  == <<cpc, closed>>
readVars == <<rpc, rlines, rsize, rblock, rcount, rbuf, rpos, rout, rclosed, rerr>>
vars == <<logVars, regVars, folVars, watVars, subVars, cloVars, readVars>>

None == "none"

(***************************************************************************)
(* Bounds of the model.                                                    *)
(***************************************************************************)
MaxRecords == 3     \* records in a persisted file (SpecRead)
MaxLines   == 4     \* largest line count asked of Read
MaxChunk   == 2     \* most bytes one read of a Follow source returns
MaxAppend  == 1     \* records appended while a Read is in progress

(***************************************************************************)
(* Sequence helpers.                                                       *)
(***************************************************************************)
Rep(c, n) == [i \in 1..n |-> c]

Drop(s, n) == SubSeq(s, n + 1, Len(s))

LastN(s, n) == IF n >= Len(s) THEN s ELSE SubSeq(s, Len(s) - n + 1, Len(s))

MinOf(S) == CHOOSE x \in S : \A y \in S : x <= y

MaxOf(S) == CHOOSE x \in S : \A y \in S : x >= y

RECURSIVE FlattenRange(_, _, _)
FlattenRange(ss, lo, hi) ==
    IF lo > hi THEN <<>>
    ELSE IF lo = hi THEN ss[lo]
    ELSE LET mid == (lo + hi) \div 2
         IN  FlattenRange(ss, lo, mid) \o FlattenRange(ss, mid + 1, hi)

\* the concatenation of a sequence of sequences
Flatten(ss) == FlattenRange(ss, 1, Len(ss))

(***************************************************************************)
(* Record codec: Data, UnixTime.MarshalJSON / UnmarshalJSON and the json   *)
(* line written by json.NewEncoder(l.l).Encode(data).                      *)
(***************************************************************************)
Millisecond == 1000000  \* time.Millisecond in nanoseconds

NL == 10                \* the byte "\n"

Data(s, t, m) == [Stream |-> s, Timestamp |-> t, Message |-> m]

RECURSIVE ItoaNat(_)
ItoaNat(n) == IF n < 10 THEN <<48 + n>> ELSE ItoaNat(n \div 10) \o <<48 + (n % 10)>>

\* strconv.AppendInt(nil, n, 10)
Itoa(n) == IF n < 0 THEN <<45>> \o ItoaNat(0 - n) ELSE ItoaNat(n)

IsDigit(b) == b >= 48 /\ b <= 57

RECURSIVE AtoiNat(_)
AtoiNat(s) == IF s = <<>> THEN 0 ELSE 10 * AtoiNat(SubSeq(s, 1, Len(s) - 1)) + (s[Len(s)] - 48)

\* strconv.ParseInt(string(data), 10, 64): optional sign, then digits only
ParseInt(s) ==
    LET neg    == s # <<>> /\ s[1] = 45
        digits == IF s # <<>> /\ s[1] \in {43, 45} THEN Tail(s) ELSE s
    IN  IF digits = <<>> \/ \E i \in 1..Len(digits) : ~IsDigit(digits[i])
            THEN [ok |-> FALSE, val |-> 0]
            ELSE [ok |-> TRUE, val |-> IF neg THEN 0 - AtoiNat(digits) ELSE AtoiNat(digits)]

\* UnixTime.MarshalJSON: whole milliseconds since the epoch, in decimal
MarshalTime(t) == Itoa(t \div Millisecond)

\* UnixTime.UnmarshalJSON: an integer of milliseconds, or "invalid timestamp"
UnmarshalTime(s) ==
    LET p == ParseInt(s)
    IN  [ok |-> p.ok, val |-> p.val * Millisecond]

\* encoding/json string escaping of one byte of the message
EscapeByte(b) ==
    CASE b = NL -> <<92, 110>>
      [] b = 34 -> <<92, 34>>
      [] b = 92 -> <<92, 92>>
      [] OTHER  -> <<b>>

\* UTF-8 as far as two-byte sequences: a lead byte and its continuation byte
IsLead2(b) == b >= 194 /\ b <= 223

IsCont(b) == b >= 128 /\ b <= 191

\* m[i] is an ASCII byte or part of a well-formed two-byte sequence
ValidUTF8At(m, i) ==
    \/ m[i] < 128
    \/ IsLead2(m[i]) /\ i < Len(m) /\ IsCont(m[i + 1])
    \/ IsCont(m[i]) /\ i > 1 /\ IsLead2(m[i - 1])

\* what encoding/json writes for a byte that is no valid UTF-8: \ufffd
Replacement == <<92, 117, 102, 102, 102, 100>>

\* encoding/json string encoding: the message coerced to valid UTF-8, an
\* invalid byte replaced by the replacement rune, then escaped
Escape(m) ==
    Flatten([i \in 1..Len(m) |->
                IF ValidUTF8At(m, i) THEN EscapeByte(m[i]) ELSE Replacement])

\* the line json.Encoder.Encode writes for a Data: {"s":1,"t":2,"m":"x"}\n
Encode(d) ==
    <<123, 34, 115, 34, 58>> \o Itoa(d.Stream)
        \o <<44, 34, 116, 34, 58>> \o MarshalTime(d.Timestamp)
        \o <<44, 34, 109, 34, 58, 34>> \o Escape(d.Message)
        \o <<34, 125, NL>>

HasAt(s, i, p) == i + Len(p) - 1 <= Len(s) /\ SubSeq(s, i, i + Len(p) - 1) = p

\* end (exclusive) of the run of sign and digit bytes that starts at i
NumEnd(s, i) ==
    LET stops == {j \in i..Len(s) : ~(IsDigit(s[j]) \/ s[j] \in {43, 45})}
    IN  IF stops = {} THEN Len(s) + 1 ELSE MinOf(stops)

\* number of backslashes that immediately precede index k, from index lo on
SlashRun(s, lo, k) ==
    LET others == {j \in lo..(k - 1) : s[j] # 92}
    IN  IF others = {} THEN k - lo ELSE k - 1 - MaxOf(others)

\* s[k] is escaped: an odd number of backslashes precedes it
Escaped(s, lo, k) == SlashRun(s, lo, k) % 2 = 1

\* the content of a json string, its escapes undone; of the \uXXXX escapes
\* the one the encoder writes for an invalid byte, \ufffd, which decodes to
\* the three bytes of U+FFFD
Unescape(e) ==
    Flatten([k \in 1..Len(e) |->
                IF e[k] = 92 /\ ~Escaped(e, 1, k) THEN <<>>
                ELSE IF e[k] = 110 /\ Escaped(e, 1, k) THEN <<NL>>
                ELSE IF e[k] = 117 /\ Escaped(e, 1, k) THEN <<239, 191, 189>>
                ELSE IF \E j \in (k - 4)..(k - 1) :
                           j >= 1 /\ e[j] = 117 /\ Escaped(e, 1, j) THEN <<>>
                ELSE <<e[k]>>])

\* index of the quote that closes a json string whose content starts at i
StrEnd(s, i) ==
    LET quotes == {j \in i..Len(s) : s[j] = 34 /\ ~Escaped(s, i, j)}
    IN  IF quotes = {} THEN 0 ELSE MinOf(quotes)

\* end (exclusive) of the run of digits that starts at i
DigitsEnd(s, i) ==
    LET stops == {j \in i..Len(s) : ~IsDigit(s[j])}
    IN  IF stops = {} THEN Len(s) + 1 ELSE MinOf(stops)

\* the json scanner's number: -? (0 | [1-9][0-9]*) (. [0-9]+)? ([eE] [+-]? [0-9]+)?
IsJsonNumber(tok) ==
    LET b       == IF tok # <<>> /\ tok[1] = 45 THEN Tail(tok) ELSE tok
        i1      == DigitsEnd(b, 1)
        intOk   == i1 > 1 /\ (i1 = 2 \/ b[1] # 48)
        hasFrac == i1 <= Len(b) /\ b[i1] = 46
        i2      == IF hasFrac THEN DigitsEnd(b, i1 + 1) ELSE i1
        fracOk  == ~hasFrac \/ i2 > i1 + 1
        hasExp  == i2 <= Len(b) /\ b[i2] \in {69, 101}
        i3      == IF ~hasExp THEN i2
                   ELSE IF i2 + 1 <= Len(b) /\ b[i2 + 1] \in {43, 45} THEN i2 + 2
                   ELSE i2 + 1
        i4      == IF hasExp THEN DigitsEnd(b, i3) ELSE i2
        expOk   == ~hasExp \/ i4 > i3
    IN  b # <<>> /\ intOk /\ fracOk /\ expOk /\ i4 = Len(b) + 1

\* the json scanner's string: quote, content, the first unescaped quote
IsJsonString(tok) == Len(tok) >= 2 /\ tok[1] = 34 /\ StrEnd(tok, 2) = Len(tok)

\* a json value that is not an object or an array
IsJsonValue(tok) ==
    \/ IsJsonNumber(tok)
    \/ IsJsonString(tok)
    \/ tok \in {<<116, 114, 117, 101>>, <<102, 97, 108, 115, 101>>}

\* end (exclusive) of the json value that starts at i: a string ends with its
\* closing quote, anything else before the next comma or closing brace
ValueEnd(s, i) ==
    IF i <= Len(s) /\ s[i] = 34
      THEN LET q == StrEnd(s, i + 1) IN IF q = 0 THEN Len(s) + 1 ELSE q + 1
      ELSE LET stops == {j \in i..Len(s) : s[j] \in {44, 125}}
           IN  IF stops = {} THEN Len(s) + 1 ELSE MinOf(stops)

\* a failed decode: err is "json" for an error of encoding/json itself and
\* "invalid timestamp" for the error of UnixTime.UnmarshalJSON
BadLine(err) == [ok |-> FALSE, data |-> Data(0, 0, <<>>), err |-> err]

\* json.Unmarshal(line, &data) of a line whose "s" value ends before sEnd,
\* whose "t" value ends before tEnd and whose "m" string closes at mEnd: the
\* line is checked to be valid json first, then the fields are stored, the
\* timestamp through UnixTime.UnmarshalJSON, which gets the bytes of the
\* value as they stand
DecodeAt(line, sEnd, tEnd, mEnd) ==
    LET stok == SubSeq(line, 6, sEnd - 1)
        s    == ParseInt(stok)
        ttok == SubSeq(line, sEnd + 5, tEnd - 1)
        t    == UnmarshalTime(ttok)
    IN  IF ~HasAt(line, 1, <<123, 34, 115, 34, 58>>) THEN BadLine("json")
        ELSE IF ~IsJsonNumber(stok) \/ ~s.ok \/ ~HasAt(line, sEnd, <<44, 34, 116, 34, 58>>)
          THEN BadLine("json")
        ELSE IF ~IsJsonValue(ttok) \/ ~HasAt(line, tEnd, <<44, 34, 109, 34, 58, 34>>)
          THEN BadLine("json")
        ELSE IF mEnd = 0 THEN BadLine("json")
        ELSE IF Drop(line, mEnd) \notin {<<125>>, <<125, NL>>} THEN BadLine("json")
        ELSE IF ~t.ok THEN BadLine("invalid timestamp")
        ELSE [ok   |-> TRUE,
              data |-> Data(s.val, t.val, Unescape(SubSeq(line, tEnd + 6, mEnd - 1))),
              err  |-> None]

\* json.Unmarshal(line, &data) of a line of the log file: the scanner finds
\* the end of each value, one after the other
Decode(bytes) ==
    CHOOSE r \in UNION { UNION { UNION { { DecodeAt(line, sEnd, tEnd, mEnd) :
                                 mEnd \in {StrEnd(line, tEnd + 6)} } :
                                 tEnd \in {ValueEnd(line, sEnd + 5)} } :
                                 sEnd \in {NumEnd(line, 6)} } :
                                 line \in {bytes} } : TRUE

\* what a record becomes on its way through the file
Truncated(d) == Data(d.Stream, (d.Timestamp \div Millisecond) * Millisecond, d.Message)

(***************************************************************************)
(* The tasks of the model and the values they draw their inputs from.      *)
(***************************************************************************)
StartTime == 1500000                \* time.Now() while the model runs, ns
Follows  == {"f1", "f2"}            \* goroutines calling Follow
Subs     == {"s1", "s2"}            \* subscriber tasks, one channel each
Wildcard == 0 - 1                   \* the key of "all streams"
Streams  == {1, 2}                  \* stream ids handed to Follow
Keys     == Streams \cup {Wildcard}
WatchCh(f) == IF f = "f1" THEN "w1" ELSE "w2"  \* ch := make(chan Data) of watch
Channels == Subs \cup {WatchCh(f) : f \in Follows}

\* the records a persisted file is made of (SpecRead): short and long
\* messages, one with a newline in it
FileRecords ==
    { Data(1, 1500000, <<97>>),
      Data(2, 2000000, <<98, NL>>),
      Data(1, 12000000, Rep(99, 280)),
      Data(2, 3999999, Rep(100, 500)) }

RECURSIVE SeqsUpTo(_, _)
SeqsUpTo(S, n) ==
    IF n = 0 THEN {<<>>}
    ELSE LET shorter == SeqsUpTo(S, n - 1)
         IN  shorter \cup {Append(q, x) : q \in shorter, x \in S}

\* a record in flight with its history: its Follow and its number there
Envelope(d, id, by) == [d |-> d, id |-> id, by |-> by]

FileOf(recs) == Flatten([i \in 1..Len(recs) |-> Encode(recs[i])])

(***************************************************************************)
(* Read: the backward block scan and the forward parse.                    *)
(***************************************************************************)
blockSize == 512

\* bytes.Count(buf, []byte("\n"))
CountNL(buf) == Cardinality({i \in 1..Len(buf) : buf[i] = NL})

\* bytes.Index(buf[from:], []byte("\n")), -1 when there is none
IndexNL(buf, from) ==
    LET at == {i \in (from + 1)..Len(buf) : buf[i] = NL}
    IN  IF at = {} THEN 0 - 1 ELSE MinOf(at) - 1 - from

\* for diff >= 0 { lastpos += bytes.Index(buf[lastpos:], "\n") + 1; diff-- }
RECURSIVE SkipLines(_, _, _)
SkipLines(buf, lastpos, diff) ==
    IF diff < 0 THEN lastpos
    ELSE SkipLines(buf, lastpos + IndexNL(buf, lastpos) + 1, diff - 1)

\* pos := size + block*blockSize, clamped to 0
ScanPos(size, block) ==
    LET pos == size + block * blockSize
    IN  IF pos < 0 THEN 0 ELSE pos

\* f.Seek(pos, SEEK_SET); f.Read(buf): the bytes read replace the head of buf
BlockRead(file, pos, buf) ==
    LET avail == Len(file) - pos
        n     == IF avail < Len(buf) THEN avail ELSE Len(buf)
    IN  IF n <= 0 THEN [n |-> 0, buf |-> buf]
        ELSE [n |-> n, buf |-> SubSeq(file, pos + 1, pos + n) \o Drop(buf, n)]

\* the values of a uint are 0..Word-1; the build's word of 64 bits is cut
\* to 16 here, which the model's integers can hold
Word == 2 ^ 16

MaxUint == Word - 1

\* int(u) of a uint u: the same bits read as a signed number
ToInt(u) == IF u >= Word \div 2 THEN u - Word ELSE u

\* int(lines+1), lines being a uint: the sum wraps around at Word
LinesPlus1(lines) == ToInt((lines + 1) % Word)

\* r.ReadBytes('\n') with the reader at offset pos of the file
ReadBytes(file, pos) ==
    LET at == {i \in (pos + 1)..Len(file) : file[i] = NL}
    IN  IF at = {} THEN [line |-> Drop(file, pos), eof |-> TRUE]
        ELSE [line |-> SubSeq(file, pos + 1, MinOf(at)), eof |-> FALSE]

\* a forward loop that leaves after its first line
ForwardEndsAfterLine(rb) == TRUE

\* if err == io.EOF { break }
ForwardEnds(rb) == rb.eof

\* a Read that takes every Log for one with a file
NoFileNever(has) == FALSE

\* name, _ := l.l.File(); if name == ""
NoFile(has) == ~has

ReadIdle ==
    /\ rpc = "idle" /\ rlines = 0 /\ rsize = 0 /\ rblock = 0 /\ rcount = 0
    /\ rbuf = <<>> /\ rpos = 0 /\ rout = <<>> /\ rclosed = FALSE /\ rerr = None

\* Read(lines, ch) up to the scan loop or the forward parse
ReadCall(lines) ==
    /\ rpc = "idle"
    /\ rlines' = lines
    /\ IF NoFile(hasFile)
         THEN /\ rclosed' = TRUE
              /\ rerr' = "nil"
              /\ rpc' = "done"
              /\ UNCHANGED <<rsize, rblock, rcount, rbuf, rpos>>
         ELSE IF lines # 0
           THEN /\ rsize' = Len(sink)
                /\ rblock' = 0 - 1
                /\ rcount' = 0
                /\ rbuf' = Rep(0, blockSize)
                /\ rpc' = "scan"
                /\ UNCHANGED <<rpos, rclosed, rerr>>
           ELSE /\ rpc' = "fwd"
                /\ UNCHANGED <<rsize, rblock, rcount, rbuf, rpos, rclosed, rerr>>
    /\ UNCHANGED <<rout, logVars, regVars, folVars, watVars, subVars, cloVars>>

\* one iteration of the scan loop
ReadScan ==
    /\ rpc = "scan"
    /\ LET pos == ScanPos(rsize, rblock)
           rd  == BlockRead(sink, pos, rbuf)
           cnt == rcount + CountNL(rd.buf)
       IN  IF rd.n = 0
             THEN /\ rerr' = "EOF"
                  /\ rpc' = "done"
                  /\ UNCHANGED <<rblock, rcount, rbuf, rpos>>
             ELSE /\ rbuf' = rd.buf
                  /\ rcount' = cnt
                  /\ IF cnt >= LinesPlus1(rlines)
                       THEN /\ rpos' = pos + SkipLines(rd.buf, 0, cnt - LinesPlus1(rlines))
                            /\ rpc' = "fwd"
                            /\ UNCHANGED rblock
                       ELSE IF pos = 0
                         THEN /\ rpos' = 0
                              /\ rpc' = "fwd"
                              /\ UNCHANGED rblock
                         ELSE /\ rblock' = rblock - 1
                              /\ UNCHANGED <<rpos, rpc>>
                  /\ UNCHANGED rerr
    /\ UNCHANGED <<rlines, rsize, rout, rclosed>>
    /\ UNCHANGED <<logVars, regVars, folVars, watVars, subVars, cloVars>>

\* a forward loop that takes the read lock of the registry at each line
ReadForwardLocked ==
    /\ rpc = "fwd"
    /\ mtxW = None
    /\ \E rb \in {ReadBytes(sink, rpos)} : \E dec \in {Decode(rb.line)} :
           IF rb.line # <<>> /\ ~dec.ok
             THEN /\ rerr' = dec.err
                  /\ rpc' = "done"
                  /\ UNCHANGED <<rout, rpos, rclosed>>
             ELSE /\ rout' = IF rb.line # <<>> THEN Append(rout, dec.data) ELSE rout
                  /\ rpos' = rpos + Len(rb.line)
                  /\ IF ForwardEnds(rb)
                       THEN /\ rclosed' = TRUE
                            /\ rerr' = "nil"
                            /\ rpc' = "done"
                       ELSE UNCHANGED <<rclosed, rerr, rpc>>
    /\ UNCHANGED <<rlines, rsize, rblock, rcount, rbuf>>
    /\ UNCHANGED <<logVars, regVars, folVars, watVars, subVars, cloVars>>

\* one iteration of the forward loop: a line is decoded and sent on ch
ReadForward ==
    /\ rpc = "fwd"
    /\ \E rb \in {ReadBytes(sink, rpos)} : \E dec \in {Decode(rb.line)} :
           IF rb.line # <<>> /\ ~dec.ok
             THEN /\ rerr' = dec.err
                  /\ rpc' = "done"
                  /\ UNCHANGED <<rout, rpos, rclosed>>
             ELSE /\ rout' = IF rb.line # <<>> THEN Append(rout, dec.data) ELSE rout
                  /\ rpos' = rpos + Len(rb.line)
                  /\ IF ForwardEnds(rb)
                       THEN /\ rclosed' = TRUE
                            /\ rerr' = "nil"
                            /\ rpc' = "done"
                       ELSE UNCHANGED <<rclosed, rerr, rpc>>
    /\ UNCHANGED <<rlines, rsize, rblock, rcount, rbuf>>
    /\ UNCHANGED <<logVars, regVars, folVars, watVars, subVars, cloVars>>

(***************************************************************************)
(* l.mtx, a sync.RWMutex.  A goroutine inside Lock keeps new readers out   *)
(* from the moment it calls Lock; it enters once the readers have left.    *)
(***************************************************************************)
CanRLock == mtxW = None

\* a Lock that does not wait for the readers to leave
CanLockIgnoresReaders(p) == mtxW \in {None, p}

\* l.mtx.Lock() returns: no other writer, no reader
CanLock(p) == mtxW \in {None, p} /\ mtxR = {}

MustWait == mtxW = None /\ mtxR # {}

\* l.listeners[stream][ch] = struct{}{}
AddTo(reg, stream, ch) == [reg EXCEPT ![stream] = @ \cup {ch}]

\* a removal that takes the channel out under every key
RemoveFromEveryKey(reg, stream, ch) == [k \in DOMAIN reg |-> reg[k] \ {ch}]

\* delete(l.listeners[stream], ch)
RemoveFrom(reg, stream, ch) == [reg EXCEPT ![stream] = @ \ {ch}]

Registered(reg) == UNION {reg[k] : k \in Keys}

Sending(f) == fpc[f] = "send"

(***************************************************************************)
(* Follow and sendData.                                                    *)
(***************************************************************************)
\* the keys a subscriber uses for its channel
SubKeys(s) == IF s = "s1" THEN Keys ELSE {Wildcard}

\* the streams a Follow call is made with
StreamsOf(f) == IF f = "f1" THEN {1} ELSE {2}

\* the bytes the source of a Follow call will produce
Source(f) == IF f = "f1" THEN <<49, 50>> ELSE <<51>>

\* a sendData that ranges over the wildcard listeners only
SendPlanWildcardOnly(reg, stream, phase, done) ==
    IF phase = "w" /\ reg[Wildcard] \ done # {}
      THEN {[phase |-> "w", target |-> ch, done |-> done] : ch \in reg[Wildcard] \ done}
      ELSE {[phase |-> "end", target |-> None, done |-> {}]}

\* a sendData that ranges over the listeners of the record's stream only
SendPlanStreamOnly(reg, stream, phase, done) ==
    LET sdone == IF phase = "w" THEN {} ELSE done
    IN  IF reg[stream] \ sdone # {}
          THEN {[phase |-> "s", target |-> ch, done |-> sdone] : ch \in reg[stream] \ sdone}
          ELSE {[phase |-> "end", target |-> None, done |-> {}]}

\* a sendData that sends to every registered channel, whatever its key
SendPlanEveryKey(reg, stream, phase, done) ==
    IF Registered(reg) \ done # {}
      THEN {[phase |-> "s", target |-> ch, done |-> done] : ch \in Registered(reg) \ done}
      ELSE {[phase |-> "end", target |-> None, done |-> {}]}

\* sendData: the next channel of "for ch := range l.listeners[-1]" and then
\* of "for ch := range l.listeners[data.Stream]"; a map is ranged over in
\* any order
SendPlan(reg, stream, phase, done) ==
    IF phase = "w" /\ reg[Wildcard] \ done # {}
      THEN {[phase |-> "w", target |-> ch, done |-> done] : ch \in reg[Wildcard] \ done}
    ELSE LET sdone == IF phase = "w" THEN {} ELSE done
         IN  IF reg[stream] \ sdone # {}
               THEN {[phase |-> "s", target |-> ch, done |-> sdone] : ch \in reg[stream] \ sdone}
               ELSE {[phase |-> "end", target |-> None, done |-> {}]}

\* Follow(stream, r): go l.watch(stream), then the read loop
FollowCall(f, stream) ==
    /\ ~crashed
    /\ fpc[f] = "idle"
    /\ fpc' = [fpc EXCEPT ![f] = "read"]
    /\ fstream' = [fstream EXCEPT ![f] = stream]
    /\ fsrc' = [fsrc EXCEPT ![f] = Source(f)]
    /\ wpc' = [wpc EXCEPT ![f] = "add"]
    /\ UNCHANGED <<fdata, ferr, fret, fphase, ftarget, fdone, fsent, fsnap, fgot,
                   inflight, now>>
    /\ UNCHANGED <<wdata, wret, logVars, regVars, subVars, cloVars, readVars>>

\* a message made of all that is left to read, whatever n is
ChunkIgnoresN(src, n) == src

\* data.Message = string(buf[:n]): the n bytes the read returned
Chunk(src, n) == SubSeq(src, 1, n)

\* a Follow that reads again after a failed read
AfterReadRetries(f, err) ==
    /\ fpc' = [fpc EXCEPT ![f] = IF err = "EOF" THEN "done" ELSE "read"]
    /\ fret' = [fret EXCEPT ![f] = IF err = "EOF" THEN "nil" ELSE None]

\* after sendData (or a read of no bytes): the tests of err in Follow
AfterRead(f, err) ==
    /\ fpc' = [fpc EXCEPT ![f] = IF err = "nil" THEN "read" ELSE "done"]
    /\ fret' = [fret EXCEPT ![f] = IF err = "nil" THEN None
                                   ELSE IF err = "EOF" THEN "nil" ELSE "err"]

\* n, err := r.Read(buf), and the record made of a chunk of n > 0 bytes
FollowRead(f, n, err) ==
    /\ ~crashed
    /\ fpc[f] = "read"
    /\ n <= Len(fsrc[f])
    /\ err = "EOF" => n = Len(fsrc[f])
    /\ fsrc' = [fsrc EXCEPT ![f] = Drop(@, n)]
    /\ ferr' = [ferr EXCEPT ![f] = err]
    /\ IF n > 0
         THEN /\ fdata' = [fdata EXCEPT ![f] =
                     Envelope(Data(fstream[f], now, Chunk(fsrc[f], n)),
                              Len(fsent[f]) + 1, f)]
              /\ fsent' = [fsent EXCEPT ![f] = Append(@, fdata'[f])]
              /\ fpc' = [fpc EXCEPT ![f] = "rlock"]
              /\ UNCHANGED fret
         ELSE /\ AfterRead(f, err)
              /\ UNCHANGED <<fdata, fsent>>
    /\ UNCHANGED <<fstream, fphase, ftarget, fdone, fsnap, fgot, inflight, now>>
    /\ UNCHANGED <<logVars, regVars, watVars, subVars, cloVars, readVars>>

\* the sender moves on to plan p: the next channel, or out of sendData
SendMove(f, p) ==
    /\ fphase' = [fphase EXCEPT ![f] = IF p.phase = "end" THEN None ELSE p.phase]
    /\ ftarget' = [ftarget EXCEPT ![f] = p.target]
    /\ fdone' = [fdone EXCEPT ![f] = p.done]
    /\ IF p.phase = "end"
         THEN /\ mtxR' = mtxR \ {f}
              /\ AfterRead(f, ferr[f])
         ELSE /\ mtxR' = mtxR \cup {f}
              /\ fpc' = [fpc EXCEPT ![f] = "send"]
              /\ UNCHANGED fret

\* sendData: l.mtx.RLock() and the first channel to send to
SendRLock(f) ==
    /\ ~crashed
    /\ fpc[f] = "rlock"
    /\ CanRLock
    /\ fsnap' = [fsnap EXCEPT ![f] = [w |-> listeners[Wildcard],
                                       s |-> listeners[fstream[f]]]]
    /\ fgot' = [fgot EXCEPT ![f] = {}]
    /\ \E p \in SendPlan(listeners, fstream[f], "w", {}) : SendMove(f, p)
    /\ UNCHANGED <<fstream, fsrc, fdata, ferr, fsent, inflight, now>>
    /\ UNCHANGED <<listeners, mtxW, chClosed, recvd, crashed, crashBy>>
    /\ UNCHANGED <<logVars, watVars, subVars, cloVars, readVars>>

\* the receiver of channel ch is blocked in a receive
Receiving(ch) ==
    IF ch \in Subs THEN spc[ch] = <<"idle">> /\ ~sstall[ch]
    ELSE \E g \in Follows : ch = WatchCh(g) /\ wpc[g] = "recv"

\* the owner of channel ch receives envelope e
Receive(ch, e) ==
    /\ ch \notin chClosed
    /\ Receiving(ch)
    /\ IF ch \in Subs
         THEN /\ recvd' = [recvd EXCEPT ![ch] = Append(@, e)]
              /\ UNCHANGED <<wpc, wdata>>
         ELSE LET g == CHOOSE g \in Follows : ch = WatchCh(g)
              IN  /\ wpc' = [wpc EXCEPT ![g] = "write"]
                  /\ wdata' = [wdata EXCEPT ![g] = e]
                  /\ UNCHANGED recvd

\* a sendData that starts each "ch <- data" in a goroutine of its own and
\* goes on without waiting for it
SendDetached(f) ==
    /\ ~crashed
    /\ \/ /\ Sending(f)
          /\ inflight' = inflight \cup {<<ftarget[f], fdata[f]>>}
          /\ fgot' = [fgot EXCEPT ![f] = @ \cup {ftarget[f]}]
          /\ \E p \in SendPlan(listeners, fstream[f], fphase[f],
                                fdone[f] \cup {ftarget[f]}) : SendMove(f, p)
          /\ UNCHANGED <<recvd, wpc, wdata>>
       \/ /\ \E m \in inflight :
                /\ Receive(m[1], m[2])
                /\ inflight' = inflight \ {m}
          /\ UNCHANGED <<fpc, fret, fphase, ftarget, fdone, fgot, mtxR>>
    /\ UNCHANGED <<fstream, fsrc, fdata, ferr, fsent, fsnap, now>>
    /\ UNCHANGED <<listeners, mtxW, chClosed, crashed, crashBy, wret>>
    /\ UNCHANGED <<logVars, subVars, cloVars, readVars>>

\* ch <- data in sendData, met by the receive of the channel's owner
SendDeliver(f) ==
    /\ ~crashed
    /\ Sending(f)
    /\ Receive(ftarget[f], fdata[f])
    /\ fgot' = [fgot EXCEPT ![f] = @ \cup {ftarget[f]}]
    /\ \E p \in SendPlan(listeners, fstream[f], fphase[f], fdone[f] \cup {ftarget[f]}) :
          SendMove(f, p)
    /\ UNCHANGED <<fstream, fsrc, fdata, ferr, fsent, fsnap, inflight, now>>
    /\ UNCHANGED <<listeners, mtxW, chClosed, crashed, crashBy, wret>>
    /\ UNCHANGED <<logVars, subVars, cloVars, readVars>>

\* ch <- data on a closed channel: panic
SendPanic(f) ==
    /\ ~crashed
    /\ Sending(f)
    /\ ftarget[f] \in chClosed
    /\ crashed' = TRUE
    /\ crashBy' = "send"
    /\ UNCHANGED <<listeners, mtxW, mtxR, chClosed, recvd>>
    /\ UNCHANGED <<logVars, folVars, watVars, subVars, cloVars, readVars>>

(***************************************************************************)
(* watch and Write.                                                        *)
(***************************************************************************)
\* a Write that encodes the record twice
WriteTwice(file, d) == file \o Encode(d) \o Encode(d)

\* a Write that puts the line at the head of the file
WriteAtHead(file, d) == Encode(d) \o file

\* Write: json.NewEncoder(l.l).Encode(data) appends one line to the file
Write(file, d) == file \o Encode(d)

\* a goroutine blocked in l.mtx.Lock() behind the readers
WatchLockWait(f) ==
    /\ ~crashed
    /\ wpc[f] \in {"add", "remove"}
    /\ MustWait
    /\ mtxW' = WatchCh(f)
    /\ UNCHANGED <<listeners, mtxR, chClosed, recvd, crashed, crashBy>>
    /\ UNCHANGED <<logVars, folVars, watVars, subVars, cloVars, readVars>>

\* a watch that subscribes on the wildcard key
WatchAddWildcard(f) ==
    /\ ~crashed
    /\ wpc[f] = "add"
    /\ CanLock(WatchCh(f))
    /\ listeners' = AddTo(listeners, Wildcard, WatchCh(f))
    /\ mtxW' = None
    /\ wpc' = [wpc EXCEPT ![f] = "recv"]
    /\ UNCHANGED <<mtxR, chClosed, recvd, crashed, crashBy, wdata, wret>>
    /\ UNCHANGED <<logVars, folVars, subVars, cloVars, readVars>>

\* watch: ch := make(chan Data); l.AddListener(stream, ch)
WatchAdd(f) ==
    /\ ~crashed
    /\ wpc[f] = "add"
    /\ CanLock(WatchCh(f))
    /\ listeners' = AddTo(listeners, fstream[f], WatchCh(f))
    /\ mtxW' = None
    /\ wpc' = [wpc EXCEPT ![f] = "recv"]
    /\ UNCHANGED <<mtxR, chClosed, recvd, crashed, crashBy, wdata, wret>>
    /\ UNCHANGED <<logVars, folVars, subVars, cloVars, readVars>>

\* a watcher that leaves its loop when its Follow call has returned
WatchLeavesWithFollow(f) ==
    /\ ~crashed
    /\ wpc[f] = "recv"
    /\ fpc[f] = "done"
    /\ wpc' = [wpc EXCEPT ![f] = "remove"]
    /\ wret' = [wret EXCEPT ![f] = "nil"]
    /\ UNCHANGED <<wdata, logVars, regVars, folVars, subVars, cloVars, readVars>>

\* watch: data, ok := <-ch with ch closed
WatchRecvClosed(f) ==
    /\ ~crashed
    /\ wpc[f] = "recv"
    /\ WatchCh(f) \in chClosed
    /\ wpc' = [wpc EXCEPT ![f] = "remove"]
    /\ wret' = [wret EXCEPT ![f] = "nil"]
    /\ UNCHANGED <<wdata, logVars, regVars, folVars, subVars, cloVars, readVars>>

\* watch: l.Write(data), which the sink accepts or refuses
WatchWrite(f, ok) ==
    /\ ~crashed
    /\ wpc[f] = "write"
    /\ IF ok
         THEN /\ sink' = Write(sink, wdata[f].d)
              /\ persisted' = Append(persisted, wdata[f])
              /\ hasFile' = TRUE
              /\ wpc' = [wpc EXCEPT ![f] = "recv"]
              /\ UNCHANGED wret
         ELSE /\ wpc' = [wpc EXCEPT ![f] = "remove"]
              /\ wret' = [wret EXCEPT ![f] = "err"]
              /\ UNCHANGED logVars
    /\ wdata' = [wdata EXCEPT ![f] = None]
    /\ UNCHANGED <<regVars, folVars, subVars, cloVars, readVars>>

\* watch: the deferred l.RemoveListener(stream, ch)
WatchRemove(f) ==
    /\ ~crashed
    /\ wpc[f] = "remove"
    /\ CanLock(WatchCh(f))
    /\ listeners' = RemoveFrom(listeners, fstream[f], WatchCh(f))
    /\ mtxW' = None
    /\ wpc' = [wpc EXCEPT ![f] = "done"]
    /\ UNCHANGED <<mtxR, chClosed, recvd, crashed, crashBy, wdata, wret>>
    /\ UNCHANGED <<logVars, folVars, subVars, cloVars, readVars>>

(***************************************************************************)
(* Subscriber tasks: AddListener and RemoveListener on their own channel.  *)
(***************************************************************************)
\* the call blocks in l.mtx.Lock() behind the readers
SubLockWait(s, op, stream) ==
    /\ ~crashed
    /\ spc[s] = <<"idle">>
    /\ MustWait
    /\ mtxW' = s
    /\ spc' = [spc EXCEPT ![s] = <<op, stream>>]
    /\ UNCHANGED <<listeners, mtxR, chClosed, recvd, crashed, crashBy, sstall>>
    /\ UNCHANGED <<logVars, folVars, watVars, cloVars, readVars>>

\* the subscriber stops receiving from its channel, for good
Stall(s) ==
    /\ ~crashed
    /\ ~sstall[s]
    /\ sstall' = [sstall EXCEPT ![s] = TRUE]
    /\ UNCHANGED <<spc, logVars, regVars, folVars, watVars, cloVars, readVars>>

\* l.AddListener(stream, ch)
AddListener(s, stream) ==
    /\ ~crashed
    /\ spc[s] \in {<<"idle">>, <<"add", stream>>}
    /\ CanLock(s)
    /\ listeners' = AddTo(listeners, stream, s)
    /\ mtxW' = None
    /\ spc' = [spc EXCEPT ![s] = <<"idle">>]
    /\ UNCHANGED <<mtxR, chClosed, recvd, crashed, crashBy, sstall>>
    /\ UNCHANGED <<logVars, folVars, watVars, cloVars, readVars>>

\* l.RemoveListener(stream, ch)
RemoveListener(s, stream) ==
    /\ ~crashed
    /\ spc[s] \in {<<"idle">>, <<"remove", stream>>}
    /\ CanLock(s)
    /\ listeners' = RemoveFrom(listeners, stream, s)
    /\ mtxW' = None
    /\ spc' = [spc EXCEPT ![s] = <<"idle">>]
    /\ UNCHANGED <<mtxR, chClosed, recvd, crashed, crashBy, sstall>>
    /\ UNCHANGED <<logVars, folVars, watVars, cloVars, readVars>>

(***************************************************************************)
(* Close.                                                                  *)
(***************************************************************************)
\* the keys a channel is registered under
KeysOf(reg, ch) == {k \in Keys : ch \in reg[k]}

\* channels whose close(ch) in Close panics: closed before, or met twice
ClosedTwice(reg, shut) ==
    {ch \in Registered(reg) : ch \in shut \/ Cardinality(KeysOf(reg, ch)) > 1}

\* the call blocks in l.mtx.Lock() behind the readers
CloseLockWait ==
    /\ ~crashed
    /\ cpc = "idle"
    /\ MustWait
    /\ mtxW' = "closer"
    /\ cpc' = "lock"
    /\ UNCHANGED <<listeners, mtxR, chClosed, recvd, crashed, crashBy, closed>>
    /\ UNCHANGED <<logVars, folVars, watVars, subVars, readVars>>

\* a Close that empties the registry when it has closed the channels
CloseClearsRegistry ==
    /\ ~crashed
    /\ cpc \in {"idle", "lock"}
    /\ CanLock("closer")
    /\ cpc' = "idle"
    /\ IF ClosedTwice(listeners, chClosed) = {}
         THEN /\ chClosed' = chClosed \cup Registered(listeners)
              /\ mtxW' = None
              /\ closed' = TRUE
              /\ UNCHANGED <<crashed, crashBy>>
         ELSE \E bad \in ClosedTwice(listeners, chClosed) :
              \E before \in SUBSET (Registered(listeners) \ {bad}) :
                 /\ chClosed' = chClosed \cup before \cup {bad}
                 /\ mtxW' = "closer"
                 /\ crashed' = TRUE
                 /\ crashBy' = "close"
                 /\ UNCHANGED closed
    /\ listeners' = [k \in DOMAIN listeners |-> {}]
    /\ UNCHANGED <<mtxR, recvd>>
    /\ UNCHANGED <<logVars, folVars, watVars, subVars, readVars>>

\* Close: close(ch) for every channel under every key, then l.l.Close()
Close ==
    /\ ~crashed
    /\ cpc \in {"idle", "lock"}
    /\ CanLock("closer")
    /\ cpc' = "idle"
    /\ IF ClosedTwice(listeners, chClosed) = {}
         THEN /\ chClosed' = chClosed \cup Registered(listeners)
              /\ mtxW' = None
              /\ closed' = TRUE
              /\ UNCHANGED <<crashed, crashBy>>
         ELSE \E bad \in ClosedTwice(listeners, chClosed) :
              \E before \in SUBSET (Registered(listeners) \ {bad}) :
                 /\ chClosed' = chClosed \cup before \cup {bad}
                 /\ mtxW' = "closer"
                 /\ crashed' = TRUE
                 /\ crashBy' = "close"
                 /\ UNCHANGED closed
    /\ UNCHANGED <<listeners, mtxR, recvd>>
    /\ UNCHANGED <<logVars, folVars, watVars, subVars, readVars>>

(***************************************************************************)
(* Initial values of the tasks that have not started.                      *)
(***************************************************************************)
RegIdle ==
    /\ listeners = [k \in Keys |-> {}]
    /\ mtxW = None /\ mtxR = {} /\ chClosed = {}
    /\ recvd = [s \in Subs |-> <<>>]
    /\ crashed = FALSE /\ crashBy = None

FolIdle ==
    /\ fpc = [f \in Follows |-> "idle"]
    /\ fstream = [f \in Follows |-> 0]
    /\ fsrc = [f \in Follows |-> <<>>]
    /\ fdata = [f \in Follows |-> None]
    /\ ferr = [f \in Follows |-> None]
    /\ fret = [f \in Follows |-> None]
    /\ fphase = [f \in Follows |-> None]
    /\ ftarget = [f \in Follows |-> None]
    /\ fdone = [f \in Follows |-> {}]
    /\ fsent = [f \in Follows |-> <<>>]
    /\ fsnap = [f \in Follows |-> [w |-> {}, s |-> {}]]
    /\ fgot = [f \in Follows |-> {}]
    /\ inflight = {}
    /\ now = StartTime

WatIdle ==
    /\ wpc = [f \in Follows |-> "idle"]
    /\ wdata = [f \in Follows |-> None]
    /\ wret = [f \in Follows |-> None]

SubIdle ==
    /\ spc = [s \in Subs |-> <<"idle">>]
    /\ sstall = [s \in Subs |-> FALSE]

CloIdle == cpc = "idle" /\ closed = FALSE

(***************************************************************************)
(* SpecRead: Read on a file that earlier Write calls persisted, with no    *)
(* writer running.                                                         *)
(***************************************************************************)
InitRead ==
    /\ \E recs \in SeqsUpTo(FileRecords, MaxRecords) :
          /\ persisted = [i \in 1..Len(recs) |-> Envelope(recs[i], 0, None)]
          /\ sink = FileOf(recs)
          /\ hasFile \in (IF recs = <<>> THEN BOOLEAN ELSE {TRUE})
    /\ RegIdle /\ FolIdle /\ WatIdle /\ SubIdle /\ CloIdle /\ ReadIdle

NextRead ==
    \/ \E lines \in 0..MaxLines : ReadCall(lines)
    \/ ReadScan
    \/ ReadForward

SpecRead == InitRead /\ [][NextRead]_vars

(***************************************************************************)
(* SpecReadAppend: the same with a writer that appends records to the file *)
(* while Read is between its first and its last step.                      *)
(***************************************************************************)
\* records appended by the concurrent writer so far
Appended == Cardinality({i \in 1..Len(persisted) : persisted[i].by = "writer"})

\* another goroutine's l.Write(d) while Read runs
ReadAppend(d) ==
    /\ rpc \in {"scan", "fwd"}
    /\ Appended < MaxAppend
    /\ sink' = Write(sink, d)
    /\ persisted' = Append(persisted, Envelope(d, 0, "writer"))
    /\ UNCHANGED <<hasFile, regVars, folVars, watVars, subVars, cloVars, readVars>>

NextReadAppend ==
    \/ NextRead
    \/ \E d \in FileRecords : ReadAppend(d)

SpecReadAppend == InitRead /\ [][NextReadAppend]_vars

(***************************************************************************)
(* Properties of Read.                                                     *)
(***************************************************************************)
\* the records of the file as a reader decodes them, in persisted order
PersistedData == [i \in 1..Len(persisted) |-> Truncated(persisted[i].d)]

ReadReturnedAll(recs) == rout = recs /\ rclosed /\ rerr = "nil"

\* C1: Read(N, ch) with 0 < N < total persisted records delivers exactly the
\* last N persisted records in persisted order, closes ch and returns nil,
\* whatever the size of the file.
C1_LastN ==
    (rpc = "done" /\ 0 < rlines /\ rlines < Len(persisted))
        => ReadReturnedAll(LastN(PersistedData, rlines))

\* C2: Read(N, ch) with N > 0 and N >= total persisted records, on a file
\* that holds at least one record, delivers all persisted records in
\* persisted order, closes ch and returns nil, also when the scan clamps its
\* position to offset 0 on a block that overlaps bytes already scanned.
C2_AllWhenMore ==
    (rpc = "done" /\ persisted # <<>> /\ 0 < rlines /\ rlines >= Len(persisted))
        => ReadReturnedAll(PersistedData)

\* C3: Read(0, ch) on an existing file delivers every persisted record once,
\* in persisted order from offset 0, then closes ch and returns nil.
C3_ReadAll ==
    (rpc = "done" /\ hasFile /\ rlines = 0) => ReadReturnedAll(PersistedData)

C3_Witness ==
    rpc = "done" /\ hasFile /\ rlines = 0 /\ Len(rout) = 3 /\ Len(sink) > blockSize

\* C11: when the sink has no active file yet, Read(lines, ch) closes ch
\* without delivering a record and returns nil, for every value of lines.
C11_NoFileNoLogs ==
    (rpc = "done" /\ ~hasFile) => (rout = <<>> /\ rclosed /\ rerr = "nil")

C11_Witness ==
    rpc = "done" /\ ~hasFile /\ rlines = MaxLines /\ rclosed /\ rsize = 0

\* C12: Read(N, ch) with N > 0 delivers at most N records, also when records
\* are appended to the file while the read is in progress.
C12_AtMostN ==
    (rpc = "done" /\ rlines > 0 /\ rerr = "nil") => Len(rout) <= rlines

(***************************************************************************)
(* Spec: the aggregate after NewLog.  Subscribers register their channels, *)
(* then Follow calls run with the watchers they spawn; the sink accepts    *)
(* every write and Close is not called.                                    *)
(***************************************************************************)
Init ==
    /\ sink = <<>> /\ hasFile = FALSE /\ persisted = <<>>
    /\ RegIdle /\ FolIdle /\ WatIdle /\ SubIdle /\ CloIdle /\ ReadIdle

ReadErrs == {"nil", "EOF", "err"}

\* no Follow call was made yet
Setup == \A f \in Follows : fpc[f] = "idle"

NextFollow(errs) ==
    \/ \E f \in Follows : \E stream \in StreamsOf(f) : FollowCall(f, stream)
    \/ \E f \in Follows, n \in 0..MaxChunk, err \in errs : FollowRead(f, n, err)
    \/ \E f \in Follows : SendRLock(f)
    \/ \E f \in Follows : SendDeliver(f)
    \/ \E f \in Follows : WatchLockWait(f)
    \/ \E f \in Follows : WatchAdd(f)
    \/ \E f \in Follows : WatchWrite(f, TRUE)

NextSetup ==
    \/ Setup /\ \E s \in Subs : \E k \in SubKeys(s) : AddListener(s, k)
    \/ Setup /\ \E s \in Subs : \E k \in SubKeys(s) : RemoveListener(s, k)

Next == NextFollow(ReadErrs) \/ NextSetup

Spec == Init /\ [][Next]_vars

(***************************************************************************)
(* SpecClose: the same with Close called at any time, any number of times. *)
(***************************************************************************)
NextClose ==
    \/ CloseLockWait
    \/ Close
    \/ \E f \in Follows : SendPanic(f)
    \/ \E f \in Follows : WatchRecvClosed(f)
    \/ \E f \in Follows : WatchRemove(f)

SpecClose == Init /\ [][NextFollow({"nil", "EOF"}) \/ NextSetup \/ NextClose]_vars

(***************************************************************************)
(* SpecFail: Follow calls with subscribers and a sink that may refuse a    *)
(* write; Close is not called.                                             *)
(***************************************************************************)
NextFail ==
    \/ \E f \in Follows : WatchWrite(f, FALSE)
    \/ \E f \in Follows : WatchRemove(f)

SpecFail == Init /\ [][NextFollow({"nil", "EOF"}) \/ NextSetup \/ NextFail]_vars

(***************************************************************************)
(* SpecStall: one Follow call, with subscribers that register and remove   *)
(* their channels at any time and may stop receiving, and with Close.      *)
(***************************************************************************)
\* the keys a subscriber uses while the one Follow call on stream 1 runs
StallKeys(s) == SubKeys(s) \cap {1, Wildcard}

NextStall ==
    \/ FollowCall("f1", 1)
    \/ \E n \in 0..MaxChunk, err \in {"nil", "EOF"} : FollowRead("f1", n, err)
    \/ SendRLock("f1")
    \/ SendDeliver("f1")
    \/ SendPanic("f1")
    \/ WatchLockWait("f1")
    \/ WatchAdd("f1")
    \/ WatchWrite("f1", TRUE)
    \/ WatchRecvClosed("f1")
    \/ WatchRemove("f1")
    \/ \E s \in Subs : \E k \in StallKeys(s) : SubLockWait(s, "add", k)
    \/ \E s \in Subs : \E k \in StallKeys(s) : SubLockWait(s, "remove", k)
    \/ \E s \in Subs : \E k \in StallKeys(s) : AddListener(s, k)
    \/ \E s \in Subs : \E k \in StallKeys(s) : RemoveListener(s, k)
    \/ \E s \in Subs : Stall(s)
    \/ CloseLockWait
    \/ Close

SpecStall == Init /\ [][NextStall]_vars

(***************************************************************************)
(* Properties of Follow, watch and sendData.                               *)
(***************************************************************************)
RECURSIVE LinesFrom(_, _)
LinesFrom(file, pos) ==
    IF pos >= Len(file) THEN <<>>
    ELSE LET rb == ReadBytes(file, pos)
         IN  <<rb.line>> \o LinesFrom(file, pos + Len(rb.line))

\* the records of the log file, in file order
SinkData ==
    LET lines == LinesFrom(sink, 0)
    IN  [i \in 1..Len(lines) |-> Decode(lines[i]).data]

InSeq(x, q) == \E i \in 1..Len(q) : q[i] = x

\* index of the first x in q
IndexOf(x, q) == MinOf({i \in 1..Len(q) : q[i] = x})

IsPrefix(a, b) == Len(a) <= Len(b) /\ SubSeq(b, 1, Len(a)) = a

\* the record of envelope e as it reads in the file
Filed(e) == Truncated(e.d)

SinkNeverFailed == \A g \in Follows : wret[g] # "err"

\* C4: every record a Follow call broadcast reaches the sink: once the call
\* has returned and no watcher holds a record, none of its records is missing
\* (the sink did not fail and Close was not called).
C4_BroadcastReachesSink ==
    \A f \in Follows :
        (/\ fpc[f] = "done"
         /\ \A g \in Follows : wpc[g] # "write"
         /\ SinkNeverFailed /\ ~closed /\ ~crashed)
            => \A i \in 1..Len(fsent[f]) : InSeq(Filed(fsent[f][i]), SinkData)

\* the subscriber's channel is registered under the wildcard key only
WildcardOnly(s) == KeysOf(listeners, s) = {Wildcard}

\* a and b, received in this order, are in the file in this order, if there
SinkAgrees(a, b) ==
    (InSeq(Filed(a), SinkData) /\ InSeq(Filed(b), SinkData))
        => IndexOf(Filed(a), SinkData) < IndexOf(Filed(b), SinkData)

C7_BroadcastToAllMatching ==
    \A f \in Follows :
        /\ fgot[f] \subseteq fsnap[f].w \cup fsnap[f].s
        /\ fpc[f] \in {"read", "rlock", "done"} => fgot[f] = fsnap[f].w \cup fsnap[f].s

C7_Witness ==
    /\ fpc["f1"] = "read"
    /\ fgot["f1"] = {"s1", "s2", "w1"}
    /\ KeysOf(listeners, "s1") = {1}
    /\ fpc["f2"] = "done"
    /\ fgot["f2"] = {"s2", "w2"}

\* the bytes a Follow call has read from its source
Consumed(f) == SubSeq(Source(f), 1, Len(Source(f)) - Len(fsrc[f]))

\* the messages subscriber s received for stream k, in order of receipt
MessagesOf(s, k) ==
    LET of(e) == e.d.Stream = k
        es    == SelectSeq(recvd[s], of)
    IN  [i \in 1..Len(es) |-> es[i].d.Message]

\* the channel of s is registered under one key, which matches stream k
ListensTo(s, k) ==
    \E key \in {k, Wildcard} : KeysOf(listeners, s) = {key}

\* C8: a subscriber registered on the stream of a Follow call, or on the
\* wildcard, before the first chunk receives one record per non-empty chunk,
\* in read order: the messages received, concatenated, are the bytes read.
C8_MessagesAreBytesRead ==
    \A f \in Follows : \A s \in Subs :
        (fpc[f] # "idle" /\ ListensTo(s, fstream[f])) =>
            LET got == MessagesOf(s, fstream[f])
            IN  /\ IsPrefix(Flatten(got), Consumed(f))
                /\ \A i \in 1..Len(got) : got[i] = fsent[f][i].d.Message /\ got[i] # <<>>
                /\ fpc[f] \in {"read", "done"} =>
                      /\ Flatten(got) = Consumed(f)
                      /\ Len(got) = Len(fsent[f])

C8_Witness ==
    /\ fpc["f1"] = "done" /\ fret["f1"] = "nil"
    /\ KeysOf(listeners, "s1") = {1} /\ WildcardOnly("s2")
    /\ MessagesOf("s1", 1) = <<<<49>>, <<50>>>>
    /\ MessagesOf("s2", 1) = <<<<49>>, <<50>>>>
    /\ Len(recvd["s2"]) = 3

\* the records of stream k in the file, in file order
SinkOf(k) ==
    LET of(d) == d.Stream = k
    IN  SelectSeq(SinkData, of)

\* no two Follow calls were made with the same stream
OneFollowPerStream ==
    \A f, g \in Follows : (f # g /\ fpc[f] # "idle" /\ fpc[g] # "idle") => fstream[f] # fstream[g]

RECURSIVE IsSubSeq(_, _)
IsSubSeq(a, b) ==
    IF a = <<>> THEN TRUE
    ELSE IF b = <<>> THEN FALSE
    ELSE IF Head(a) = Head(b) THEN IsSubSeq(Tail(a), Tail(b))
    ELSE IsSubSeq(a, Tail(b))

\* C9: with one Follow call per stream, the records of a stream are in the
\* sink in the order in which the chunks of the stream were read.
C9_SinkKeepsStreamOrder ==
    OneFollowPerStream =>
        \A f \in Follows : fpc[f] # "idle" =>
            IsSubSeq(SinkOf(fstream[f]), [i \in 1..Len(fsent[f]) |-> Filed(fsent[f][i])])

C9_Witness ==
    /\ Len(SinkData) = 3
    /\ SinkData[1].Message = <<49>>
    /\ SinkData[2].Stream = 2
    /\ SinkData[3].Message = <<50>>

\* C10: Close closes every registered channel exactly once, whatever the
\* registry holds: no Close panics on a channel it has closed already, unless
\* an earlier Close completed and closed the channel before.
C10_CloseClosesOnce == crashBy = "close" => closed

\* the bytes of the records a Follow call handed to sendData, in order
Broadcast(f) == Flatten([i \in 1..Len(fsent[f]) |-> fsent[f][i].d.Message])

\* C13: Follow returns nil on end-of-stream and the source's error on any
\* other read failure; the chunk that came with the terminating condition was
\* broadcast, to every listener, before Follow returned; and Follow reads
\* again only after a read that reported no error.
C13_FollowReturns ==
    \A f \in Follows :
        /\ fpc[f] = "read" => ferr[f] \in {None, "nil"}
        /\ fpc[f] = "done" =>
              /\ ferr[f] \in {"EOF", "err"}
              /\ fret[f] = (IF ferr[f] = "EOF" THEN "nil" ELSE "err")
              /\ Broadcast(f) = Consumed(f)
              /\ fgot[f] = fsnap[f].w \cup fsnap[f].s

C13_Witness ==
    /\ fpc["f1"] = "done" /\ fret["f1"] = "err"
    /\ Len(fsent["f1"]) = 2 /\ fgot["f1"] = {"s1", "s2", "w1"}
    /\ fpc["f2"] = "send" /\ ferr["f2"] = "EOF" /\ fsrc["f2"] = <<>>

\* the watch goroutines that were started and have not returned
LiveWatchers == {f \in Follows : wpc[f] \notin {"idle", "done"}}

\* the watch goroutines that have subscribed their channel
Subscribed == {f \in Follows : wpc[f] \in {"recv", "write"}}

Dead(g) == wpc[g] \in {"remove", "done"}

\* C15: after a sink write has failed inside a watcher, no Follow call is
\* left sending to the dead watcher's channel, on which no one receives any
\* more (the sender holds the read lock, so the dead watcher never gets to
\* remove its channel and the send never ends).
C15_NoSendToDeadWatcher ==
    \A f, g \in Follows : ~(Sending(f) /\ ftarget[f] = WatchCh(g) /\ Dead(g))

\* the sendData of f is blocked sending to a subscriber that never receives
Stalled(f) ==
    Sending(f) /\ ftarget[f] \in Subs /\ sstall[ftarget[f]] /\ ftarget[f] \notin chClosed

\* the records of Follow call f that were written to the file
PersistedOf(f) == {i \in 1..Len(persisted) : persisted[i].by = f}

\* C16: while a broadcast is blocked sending to a subscriber that never
\* receives, the broadcast does not complete, no AddListener, RemoveListener
\* or Close completes, and the stalled Follow call broadcasts and persists
\* no record after the one it is blocked on.
C16_StalledBroadcastBlocks ==
    [][\A f \in Follows : Stalled(f) =>
          /\ fpc'[f] = "send" /\ ftarget'[f] = ftarget[f] /\ f \in mtxR'
          /\ listeners' = listeners
          /\ chClosed' = chClosed /\ closed' = closed /\ ~crashed'
          /\ \A s \in Subs : spc[s] # <<"idle">> => spc'[s] = spc[s]
          /\ cpc = "lock" => cpc' = "lock"
          /\ fsent'[f] = fsent[f]
          /\ \A i \in 1..Len(persisted') :
                persisted'[i].by = f => persisted'[i].id <= fdata[f].id]_vars

C16_Witness ==
    /\ Stalled("f1") /\ ftarget["f1"] = "s2"
    /\ cpc = "lock" /\ mtxW = "closer"
    /\ Len(fsent["f1"]) = 2 /\ Len(persisted) = 1
    /\ "s1" \in listeners[1]

\* the subscriptions of a registry: (key, channel) pairs
Pairs(reg) == {p \in Keys \X Channels : p[2] \in reg[p[1]]}

\* C17: a RemoveListener(key, ch) that returns has taken (key, ch) out of the
\* registry if it was there and changed nothing if it was not (never added,
\* removed before, key never used); it does not fail, and every other
\* subscription stays: a step that takes subscriptions away takes one.
C17_RemoveOnlyItsOwn ==
    [][/\ \A s \in Subs : \A k \in Keys :
             (spc[s] = <<"remove", k>> /\ spc'[s] = <<"idle">>) =>
                 /\ Pairs(listeners') = Pairs(listeners) \ {<<k, s>>}
                 /\ ~crashed'
       /\ Pairs(listeners') \subseteq Pairs(listeners) =>
             Cardinality(Pairs(listeners) \ Pairs(listeners')) <= 1]_vars

C17_Witness ==
    /\ spc["s1"] = <<"remove", 1>>
    /\ Pairs(listeners) = {<<Wildcard, "s1">>, <<Wildcard, "s2">>, <<1, "w1">>}
    /\ Sending("f1") /\ ftarget["f1"] = "s2"

\* C18: in every reachable state of the registry each channel is registered
\* under at most one key, whatever AddListener and RemoveListener calls were
\* made.
C18_OneKeyPerChannel ==
    \A ch \in Channels : Cardinality(KeysOf(listeners, ch)) <= 1

\* the records of f whose sendData has returned
Completed(f) ==
    IF fpc[f] \in {"read", "done"} THEN fsent[f]
    ELSE SubSeq(fsent[f], 1, Len(fsent[f]) - 1)

\* C19: a channel whose AddListener(key, ch) returned before a broadcast with
\* a matching stream id (any stream id for the wildcard key) took the lock,
\* and that was not removed since, has received the record when the
\* broadcast returns.
C19_RegisteredGetsLaterBroadcasts ==
    \A f \in Follows : \A s \in Subs :
        (~Sending(f) /\ Completed(f) # <<>> /\ s \in fsnap[f].w \cup fsnap[f].s)
            => InSeq(Completed(f)[Len(Completed(f))], recvd[s])

C19_Witness ==
    /\ fpc["f1"] = "done" /\ Len(fsent["f1"]) = 2
    /\ fsnap["f1"].s = {"s1", "w1"} /\ fsnap["f1"].w = {"s2"}
    /\ recvd["s1"] = <<fsent["f1"][2]>>
    /\ recvd["s2"] = fsent["f1"]

\* no Follow call was made with stream id k
Unfollowed(k) == \A f \in Follows : fpc[f] = "idle" \/ fstream[f] # k

\* C20: a subscriber registered under a stream id that no Follow call uses
\* receives no record of the broadcasts of other streams, and its channel is
\* closed by nothing but Close.
C20_OtherStreamsPassBy ==
    \A s \in Subs : \A k \in Streams :
        (KeysOf(listeners, s) = {k} /\ Unfollowed(k)) =>
            /\ recvd[s] = <<>>
            /\ s \in chClosed => (closed \/ crashBy = "close")

C20_Witness ==
    /\ KeysOf(listeners, "s1") = {2} /\ Unfollowed(2)
    /\ fpc["f1"] = "done" /\ Len(fsent["f1"]) = 2
    /\ recvd["s2"] = fsent["f1"] /\ recvd["s1"] = <<>>
    /\ closed /\ "s1" \in chClosed

(***************************************************************************)
(* SpecDamaged: Read on a file with one line in it that json.Unmarshal     *)
(* refuses, between records that Write persisted.                          *)
(***************************************************************************)
MaxBefore == 2      \* records in the file before the damaged line
MaxAfter == 1       \* records in the file after it

\* the records around the damaged line: a short and a long message
DamagedRecords == { Data(1, 1500000, <<97>>), Data(1, 12000000, Rep(99, 280)) }

\* the line {"s":1,"t":tok,"m":"x"}\n
LineWithTime(tok) ==
    <<123, 34, 115, 34, 58, 49, 44, 34, 116, 34, 58>> \o tok
        \o <<44, 34, 109, 34, 58, 34, 120, 34, 125, NL>>

\* timestamp values that are json but no integer: 1.5, "12", 1e3, true
BadTimes == { <<49, 46, 53>>, <<34, 49, 50, 34>>, <<49, 101, 51>>, <<116, 114, 117, 101>> }

\* lines that are no json at all: a torn record and a stray byte
TornLines == { <<123, 34, 115, 34, 58, 49, 44, 34, 116, 34, 58, 49, 50, NL>>, <<120, NL>> }

BadLines == {LineWithTime(tok) : tok \in BadTimes} \cup TornLines

EnvelopesOf(recs, by) == [i \in 1..Len(recs) |-> Envelope(recs[i], 0, by)]

InitDamaged ==
    /\ \E before \in SeqsUpTo(DamagedRecords, MaxBefore) :
       \E after \in SeqsUpTo(DamagedRecords, MaxAfter) :
       \E bad \in BadLines :
          /\ persisted = EnvelopesOf(before, "before") \o EnvelopesOf(after, "after")
          /\ sink = FileOf(before) \o bad \o FileOf(after)
          /\ hasFile = TRUE
    /\ RegIdle /\ FolIdle /\ WatIdle /\ SubIdle /\ CloIdle /\ ReadIdle

SpecDamaged == InitDamaged /\ [][NextRead]_vars

\* the records of the file on one side of the damaged line, as a reader
\* decodes them
SideData(by) ==
    LET at == {i \in 1..Len(persisted) : persisted[i].by = by}
        lo == IF at = {} THEN 1 ELSE MinOf(at)
    IN  [i \in 1..Cardinality(at) |-> Truncated(persisted[lo + i - 1].d)]

\* the damaged line of the file
DamagedLine == LinesFrom(sink, 0)[Len(SideData("before")) + 1]

\* Read returned the error of json.Unmarshal
DecodeFailed == rpc = "done" /\ rerr \in {"json", "invalid timestamp"}

\* the records Read(lines, ch) is to deliver before it meets the damaged
\* line: those of the last `lines` lines of the file that precede it
BeforeInWindow ==
    IF rlines = 0 THEN SideData("before")
    ELSE LastN(SideData("before"), rlines - Len(SideData("after")) - 1)

\* C21: when the file holds a malformed line, Read delivers the records
\* before that line that lie in the requested window, then returns the
\* decode error with no later record delivered and with ch left open.
C21_DecodeErrorLeavesOpen == DecodeFailed => (rout = BeforeInWindow /\ ~rclosed)

\* C22: when the file exists and holds zero bytes, Read(N, ch) closes ch
\* with no record delivered and returns nil, for N = 0 and for every N > 0.
C22_EmptyFileCloses ==
    (rpc = "done" /\ hasFile /\ sink = <<>>) => (rout = <<>> /\ rclosed /\ rerr = "nil")

\* C23: Write(record) appends exactly one line to the file, the encoding of
\* the record, and goes around the fanout: no channel receives anything and
\* the registry stays as it is.
C23_WriteAppendsOneLine ==
    [][persisted' # persisted =>
          LET e == persisted'[Len(persisted')]
              l == LinesFrom(sink', Len(sink))
          IN  /\ persisted' = Append(persisted, e)
              /\ IsPrefix(sink, sink')
              /\ Len(l) = 1 /\ l[1][Len(l[1])] = NL
              /\ Decode(l[1]).ok /\ Decode(l[1]).data = Truncated(e.d)
              /\ recvd' = recvd /\ listeners' = listeners /\ chClosed' = chClosed
              /\ inflight' = inflight]_vars

C23_Witness ==
    /\ Len(persisted) = 2 /\ Len(LinesFrom(sink, 0)) = 2
    /\ "s1" \in listeners[1] /\ Len(recvd["s1"]) = 2

(***************************************************************************)
(* SpecWatch: Follow calls and their watchers with no subscriber, a sink   *)
(* that may refuse a write, and Close called at any time.                  *)
(***************************************************************************)
SpecWatch == Init /\ [][NextFollow(ReadErrs) \/ NextClose \/ NextFail]_vars

\* C24: the watcher a Follow call spawned goes on running, its channel
\* registered, when that call has returned, on end-of-stream or on an error;
\* it leaves only when Close has closed its channel or a Write has failed.
C24_WatcherOutlivesFollow ==
    \A f \in Follows :
        /\ Dead(f) => (wret[f] = "err" \/ WatchCh(f) \in chClosed)
        /\ (fpc[f] = "done" /\ ~Dead(f)) =>
              /\ f \in LiveWatchers
              /\ f \in Subscribed => KeysOf(listeners, WatchCh(f)) = {fstream[f]}

C24_Witness ==
    /\ fpc["f1"] = "done" /\ fret["f1"] = "err" /\ "f1" \in Subscribed
    /\ fpc["f2"] = "done" /\ fret["f2"] = "nil" /\ "f2" \in Subscribed
    /\ listeners[1] = {"w1"} /\ listeners[2] = {"w2"} /\ ~closed /\ chClosed = {}
    /\ Len(persisted) = 3

(***************************************************************************)
(* SpecCodec: Read on a file of one line, which is either the line Write   *)
(* makes of a record or a line whose timestamp is json but no integer.     *)
(***************************************************************************)
MaxMessage == 2     \* bytes in the message of the record

\* message bytes: newline, quote, backslash, "n", the two bytes of U+00E9
\* and a byte that no UTF-8 text holds
CodecBytes == {NL, 34, 92, 110, 195, 169, 255}

\* timestamps in ns: on and off a millisecond boundary
CodecTimes == {999999, 1500000, 2000000}

InitCodec ==
    /\ \/ \E s \in Keys, t \in CodecTimes, m \in SeqsUpTo(CodecBytes, MaxMessage) :
             /\ persisted = <<Envelope(Data(s, t, m), 0, None)>>
             /\ sink = Write(<<>>, Data(s, t, m))
       \/ \E tok \in BadTimes :
             /\ persisted = <<>>
             /\ sink = LineWithTime(tok)
    /\ hasFile = TRUE
    /\ RegIdle /\ FolIdle /\ WatIdle /\ SubIdle /\ CloIdle /\ ReadIdle

\* Read(0, ch): no scan, the forward loop alone
NextCodec ==
    \/ ReadCall(0)
    \/ ReadForward

SpecCodec == InitCodec /\ [][NextCodec]_vars

\* C25: a record encoded to a line and decoded from it keeps its stream id
\* and its message and has its timestamp cut to whole milliseconds; a line
\* whose timestamp is not an integer fails to decode with the
\* invalid-timestamp error.
C25_CodecRoundTrip ==
    rpc = "done" =>
        IF persisted # <<>>
          THEN LET d == persisted[1].d
               IN  /\ rerr = "nil" /\ Len(rout) = 1
                   /\ rout[1].Stream = d.Stream
                   /\ rout[1].Message = d.Message
                   /\ rout[1].Timestamp = (d.Timestamp \div Millisecond) * Millisecond
          ELSE rerr = "invalid timestamp" /\ rout = <<>>

(***************************************************************************)
(* SpecReadStall: one Follow call with a subscriber on its stream that may *)
(* stop receiving, goroutines that come to wait in l.mtx.Lock(), and Read  *)
(* calls made while the broadcast holds the lock, blocked on the           *)
(* subscriber.                                                             *)
(***************************************************************************)
\* the registry lock is held by a blocked broadcast
Contended == Stalled("f1")

NextReadStall ==
    \/ FollowCall("f1", 1)
    \/ \E n \in 0..MaxChunk, err \in {"nil", "EOF"} : FollowRead("f1", n, err)
    \/ SendRLock("f1")
    \/ SendDeliver("f1")
    \/ SendPanic("f1")
    \/ WatchLockWait("f1")
    \/ WatchAdd("f1")
    \/ WatchWrite("f1", TRUE)
    \/ WatchRecvClosed("f1")
    \/ WatchRemove("f1")
    \/ Setup /\ AddListener("s1", 1)
    \/ Stall("s1")
    \/ SubLockWait("s1", "remove", 1)
    \/ RemoveListener("s1", 1)
    \/ SubLockWait("s2", "add", Wildcard)
    \/ AddListener("s2", Wildcard)
    \/ CloseLockWait
    \/ Close
    \/ Contended /\ \E lines \in 0..MaxLines : ReadCall(lines)
    \/ ReadScan
    \/ ReadForward

SpecReadStall == Init /\ [][NextReadStall]_vars

\* the same with the scheduler's promise to a goroutine that can run: a Read
\* that can take its next step takes it
SpecReadStallLive == SpecReadStall /\ WF_vars(ReadScan) /\ WF_vars(ReadForward)

\* C26: Read takes no registry lock: a Read call that has begun runs to its
\* end, closing ch and returning nil, also while a broadcast is blocked on a
\* stalled subscriber and AddListener, RemoveListener or Close waits for the
\* lock.
C26_ReadTakesNoLock ==
    (rpc \in {"scan", "fwd"}) ~> (rpc = "done" /\ rclosed /\ rerr = "nil")

C26_Witness ==
    /\ rpc = "done" /\ rclosed /\ Len(rout) = 2 /\ rlines = 0
    /\ Stalled("f1") /\ cpc = "lock" /\ mtxW = "closer"

\* a step of Close past l.mtx.Lock(): channels are closed, or it panics
CloseStep ==
    \/ chClosed' # chClosed
    \/ closed' # closed
    \/ crashBy' = "close" /\ crashBy # "close"

\* C27: Close leaves the registry as it found it: the channels it closed
\* stay registered until their owners remove them, so a Close that finds a
\* registered channel closed already panics on closing it again, and a
\* broadcast that reaches a closed channel delivers nothing and panics.
C27_CloseKeepsRegistry ==
    [][/\ CloseStep =>
             /\ listeners' = listeners
             /\ Registered(listeners) \cap chClosed # {} => (crashed' /\ crashBy' = "close")
       /\ \A ch \in Subs \cap chClosed : recvd'[ch] = recvd[ch]
       /\ \A f \in Follows :
             (Sending(f) /\ ftarget[f] \in chClosed) =>
                 /\ fgot'[f] = fgot[f]
                 /\ fpc'[f] # fpc[f] => (crashed' /\ crashBy' = "send")]_vars

C27_Witness ==
    /\ closed /\ crashBy = "send" /\ Sending("f1")
    /\ ftarget["f1"] = "s1" /\ "s1" \in chClosed /\ "s1" \in listeners[1]
    /\ "w1" \notin chClosed

\* C28: Follow hands sendData exactly one record for each read of its source
\* that returns n > 0 bytes, the message of the record being those n bytes,
\* however they fall with respect to lines; a read that returns no byte, and
\* any other step, makes no record.
C28_OneRecordPerRead ==
    [][\A f \in Follows :
          LET n == Len(fsrc[f]) - Len(fsrc'[f])
          IN  IF fpc[f] = "read" /\ n > 0
                THEN /\ fsent'[f] = Append(fsent[f], fdata'[f])
                     /\ fdata'[f].d.Stream = fstream[f]
                     /\ fdata'[f].d.Message = SubSeq(fsrc[f], 1, n)
                     /\ fpc'[f] = "rlock"
                ELSE /\ fsent'[f] = fsent[f]
                     /\ fpc'[f] = "rlock" => fpc[f] = "rlock"]_vars

C28_Witness ==
    /\ fpc["f1"] = "done" /\ fret["f1"] = "nil" /\ fsrc["f1"] = <<>>
    /\ Len(fsent["f1"]) = 1 /\ fsent["f1"][1].d.Message = <<49, 50>>
    /\ Len(fsent["f2"]) = 1 /\ fpc["f2"] = "read" /\ ferr["f2"] = "nil"
    /\ Len(persisted) = 2

(***************************************************************************)
(* SpecReadWide: Read on a persisted file with the largest line counts a   *)
(* uint holds.                                                             *)
(***************************************************************************)
NextReadWide ==
    \/ \E lines \in {MaxUint - 1, MaxUint} : ReadCall(lines)
    \/ ReadScan
    \/ ReadForward

SpecReadWide == InitRead /\ [][NextReadWide]_vars

\* C29: lines+1 does not wrap around in the scan: Read(lines, ch) with lines
\* the largest uint, on a file that holds records, delivers every persisted
\* record in order, closes ch and returns nil, as any request for more lines
\* than there are does.
C29_NoWrap ==
    (rpc = "done" /\ rlines = MaxUint /\ persisted # <<>>) => ReadReturnedAll(PersistedData)

(***************************************************************************)
(* SpecSame: Follow calls that may name the same stream id, or the         *)
(* wildcard key, with no subscriber; the sink accepts every write.         *)
(***************************************************************************)
NextSame ==
    \/ \E f \in Follows : \E stream \in {1, Wildcard} : FollowCall(f, stream)
    \/ \E f \in Follows, n \in 0..MaxChunk, err \in {"nil", "EOF"} : FollowRead(f, n, err)
    \/ \E f \in Follows : SendRLock(f)
    \/ \E f \in Follows : SendDeliver(f)
    \/ \E f \in Follows : WatchLockWait(f)
    \/ \E f \in Follows : WatchAdd(f)
    \/ \E f \in Follows : WatchWrite(f, TRUE)

SpecSame == Init /\ [][NextSame]_vars

\* C30: no record that was broadcast is appended to the file more than once,
\* whatever Follow calls are made: two calls, one after the other or at the
\* same time, on one stream id, or a call on the wildcard key -1.
C30_PersistedOnce ==
    \A i, j \in 1..Len(persisted) : i # j => persisted[i] # persisted[j]

(***************************************************************************)
(* One broadcast, one delivery per channel.                                *)
(***************************************************************************)
\* C31: a single broadcast delivers its record at most once to each channel,
\* whatever the registry holds, also to a channel registered under both the
\* wildcard key and the record's stream id: no subscriber receives the record
\* of one broadcast twice.
C31_DeliversOnce ==
    \A s \in Subs : \A i, j \in 1..Len(recvd[s]) :
        i # j => recvd[s][i] # recvd[s][j]

(***************************************************************************)
(* SpecLeave: one Follow call on stream 1 and two subscribers that keep    *)
(* receiving, until s1 stops receiving and calls RemoveListener for its    *)
(* channel.  Every goroutine that can take a step is scheduled: the        *)
(* sends that have a receiver, the watcher, and the Lock of a              *)
(* RemoveListener once no reader holds l.mtx.                              *)
(***************************************************************************)
NextLeave ==
    \/ FollowCall("f1", 1)
    \/ \E n \in 0..MaxChunk, err \in {"nil", "EOF"} : FollowRead("f1", n, err)
    \/ SendRLock("f1")
    \/ SendDeliver("f1")
    \/ WatchLockWait("f1")
    \/ WatchAdd("f1")
    \/ WatchWrite("f1", TRUE)
    \/ Setup /\ \E s \in Subs : \E k \in StallKeys(s) : AddListener(s, k)
    \/ Stall("s1")
    \/ sstall["s1"] /\ \E k \in StallKeys("s1") : SubLockWait("s1", "remove", k)
    \/ sstall["s1"] /\ \E k \in StallKeys("s1") : RemoveListener("s1", k)

SpecLeave == Init /\ [][NextLeave]_vars

SpecLeaveLive ==
    /\ SpecLeave
    /\ WF_vars(SendRLock("f1"))
    /\ WF_vars(SendDeliver("f1"))
    /\ WF_vars(WatchLockWait("f1"))
    /\ WF_vars(WatchAdd("f1"))
    /\ WF_vars(WatchWrite("f1", TRUE))
    /\ \A k \in StallKeys("s1") :
          WF_vars(spc["s1"] = <<"remove", k>> /\ RemoveListener("s1", k))

\* s1 is inside a RemoveListener call for its own channel
Leaving(s) == \E k \in Keys : spc[s] = <<"remove", k>>

\* C32: a subscriber that has stopped receiving and calls RemoveListener for
\* its own channel gets the call to return eventually, while every other
\* subscriber keeps receiving, also when a broadcast is in the middle of
\* sending to that channel.
C32_RemoveListenerReturns == Leaving("s1") ~> spc["s1"] = <<"idle">>

(***************************************************************************)
(* Close and the broadcasts in flight.                                     *)
(***************************************************************************)
\* sendData of f is between l.mtx.RLock() and its return
InFlight(f) == f \in mtxR \/ Sending(f)

\* C33: Close never closes a channel while a broadcast is in the middle of
\* sending: as long as a sendData is between its RLock and its return no
\* channel is closed, so a send that meets a closed channel belongs to a
\* broadcast that took the lock after Close had closed the channels.
C33_CloseWaitsForBroadcasts ==
    [][(\E f \in Follows : InFlight(f)) => chClosed' = chClosed]_vars

C33_Witness ==
    /\ closed /\ crashBy = "send"
    /\ \E f \in Follows :
          /\ Sending(f) /\ ftarget[f] \in chClosed
          /\ Len(fsent[f]) = 2
          /\ \E s \in Subs \cap chClosed : Len(recvd[s]) = 1

===============================================================================
